---- MODULE Spec2Model ----
(***************************************************************************)
(* F1CarbonTracker (src/f1_carbon_tracker.py): per-race CO2 emissions,     *)
(* season aggregation, reduction scenarios and the net-zero tracker.       *)
(*                                                                         *)
(* Quantities of CO2 are exact: an amount is an integer number of          *)
(* quarter-kilograms (UnitsPerKg units per kg).  With distances that are   *)
(* multiples of 10 km every product and quotient of the program is an      *)
(* integer in this unit, so no rounding is introduced (ExactArithmetic).   *)
(* A quotient the program only prints or returns (a percentage, the        *)
(* required annual reduction) is kept as the scaled fraction               *)
(* (num / den) * scale, or as nan / inf / a raised ZeroDivisionError.      *)
(***************************************************************************)
EXTENDS Integers, Sequences, FiniteSets

VARIABLES
  race_calendar,              \* self.race_calendar: sequence of events
  pc,                         \* position of the running program
  caller,                     \* which entry point is running
  results,                    \* calculate_season_emissions: the list `results`
  emissions_df,               \* the season table (returned / passed in)
  total_season,               \* generate_report: emissions_df['total'].sum()
  category_pct,               \* generate_report: the five printed percentages
  scenarios,                  \* result of simulate_sustainability_scenarios
  current_emissions,          \* track_progress_to_net_zero argument
  emissions_kind,             \* "numpy" (a DataFrame sum) or "python" (a plain number)
  target_year,                \* track_progress_to_net_zero argument
  current_year,               \* datetime.now().year
  years_remaining,            \* track_progress_to_net_zero local
  required_annual_reduction,  \* track_progress_to_net_zero result
  reduction_rate,             \* track_progress_to_net_zero: printed rate
  fault                       \* "none" or the exception that propagated

vars == << race_calendar, pc, caller, results, emissions_df, total_season,
           category_pct, scenarios, current_emissions, emissions_kind,
           target_year, current_year, years_remaining, required_annual_reduction, reduction_rate, fault >>

----------------------------------------------------------------------------
(* Bounds of the model *)

MaxEvents == 2      \* length of the generated calendars
MaxRows == 2        \* length of the caller-supplied emission tables

----------------------------------------------------------------------------
(* Unit of account and program constants *)

UnitsPerKg == 4

\* self.emission_factors
air_freight_per_kg == 2100          \* 2.1, in thousandths
sea_freight_per_kg == 15            \* 0.015, in thousandths
road_freight_factor == 100          \* 0.1, in thousandths (literal on line 91)
fuel_per_liter == 231               \* 2.31, in hundredths
passenger_flight_per_km == 255      \* 0.255, in thousandths
circuit_operations == 500000
hotel_night == 30

\* self.f1_data
teams == 10
personnel_per_team == 80
freight_weight_per_team == 15000
fuel_consumption_per_race == 100
cars_per_race == 20
support_series_factor == 13         \* 1.3, in tenths

default_target_year == 2030

----------------------------------------------------------------------------
(* The race calendar *)

Ev(r, l, d, m) ==
  [race |-> r, location |-> l, distance_from_previous |-> d, freight_method |-> m]

BuiltInCalendar == <<
  Ev("Bahrain GP", "Manama", 0, "sea"),
  Ev("Saudi Arabian GP", "Jeddah", 450, "road"),
  Ev("Australian GP", "Melbourne", 8500, "sea"),
  Ev("Japanese GP", "Suzuka", 8000, "sea"),
  Ev("Chinese GP", "Shanghai", 1700, "road"),
  Ev("Miami GP", "Miami", 17000, "air"),
  Ev("Emilia Romagna GP", "Imola", 8500, "air"),
  Ev("Monaco GP", "Monaco", 350, "road"),
  Ev("Canadian GP", "Montreal", 6200, "air"),
  Ev("Spanish GP", "Barcelona", 5200, "air"),
  Ev("Austrian GP", "Spielberg", 1000, "road"),
  Ev("British GP", "Silverstone", 1200, "road"),
  Ev("Hungarian GP", "Budapest", 1500, "road"),
  Ev("Belgian GP", "Spa", 1200, "road"),
  Ev("Dutch GP", "Zandvoort", 300, "road"),
  Ev("Italian GP", "Monza", 1000, "road"),
  Ev("Azerbaijan GP", "Baku", 3000, "air"),
  Ev("Singapore GP", "Singapore", 7500, "air"),
  Ev("United States GP", "Austin", 17000, "air"),
  Ev("Mexican GP", "Mexico City", 1500, "road"),
  Ev("Brazilian GP", "Sao Paulo", 3500, "air"),
  Ev("Las Vegas GP", "Las Vegas", 8000, "air"),
  Ev("Qatar GP", "Doha", 12000, "air"),
  Ev("Abu Dhabi GP", "Abu Dhabi", 550, "road") >>

\* Other calendars a caller may assign to tracker.race_calendar.
Distances == {0, 450, 17000}
Methods == {"air", "sea", "road", "rail"}
RaceName == <<"R1", "R2", "R3", "R4">>

GeneratedCalendars ==
  UNION { { [i \in 1..n |-> Ev(RaceName[i], "L", f[i][1], f[i][2])] :
              f \in [1..n -> Distances \X Methods] } : n \in 1..MaxEvents }

----------------------------------------------------------------------------
(* Numbers the program divides *)

Val(n, d, s) == [k |-> "num", num |-> n, den |-> d, scale |-> s]
NaN == [k |-> "nan", num |-> 0, den |-> 0, scale |-> 0]
Inf == [k |-> "inf", num |-> 0, den |-> 0, scale |-> 0]
Raised == [k |-> "raise", num |-> 0, den |-> 0, scale |-> 0]

\* variant: a zero divisor raises whatever the kind of number
Divide_AlwaysRaises(x, y, kind) ==
  IF y # 0 THEN Val(x, y, 1) ELSE Raised

\* x / y.  A plain Python number raises ZeroDivisionError on y = 0; a numpy
\* float64 scalar (what DataFrame column sums are) yields nan or inf and a
\* RuntimeWarning, and execution continues.
Divide(x, y, kind) ==
  IF y # 0 THEN Val(x, y, 1)
  ELSE IF kind = "python" THEN Raised
  ELSE IF x = 0 THEN NaN ELSE Inf

\* v * n for a quotient v
Times(v, n) == IF v.k = "num" THEN [v EXCEPT !.scale = @ * n] ELSE v

\* v / y for a quotient v
DivideVal(v, y, kind) ==
  IF v.k # "num" THEN v
  ELSE IF y # 0 THEN [v EXCEPT !.den = @ * y]
  ELSE IF kind = "python" THEN Raised
  ELSE IF v.num = 0 THEN NaN ELSE Inf

\* x * (n/d) for an amount x and the decimal literal n/d
Frac(x, n, d) == (x * n) \div d

----------------------------------------------------------------------------
(* calculate_race_emissions *)

total_freight == teams * freight_weight_per_team
total_personnel == teams * personnel_per_team
total_fuel == fuel_consumption_per_race * cars_per_race * 3

\* variant: a two-way selector, everything but air taken as sea
FreightFactor_TwoWay(method) ==
  IF method = "air" THEN air_freight_per_kg ELSE sea_freight_per_kg

\* the three-way selector of lines 86-91, as the factor in thousandths
FreightFactor(method) ==
  IF method = "air" THEN air_freight_per_kg
  ELSE IF method = "sea" THEN sea_freight_per_kg
  ELSE road_freight_factor

\* (total_freight * distance * factor) / 1000, the product reassociated so
\* that distance is multiplied last
freight_emissions(distance, method) ==
  ((total_freight * FreightFactor(method) * UnitsPerKg) \div (1000 * 1000)) * distance

personnel_travel(distance) ==
  ((total_personnel * passenger_flight_per_km * UnitsPerKg) \div 1000) * distance

fuel_emissions == (total_fuel * fuel_per_liter * UnitsPerKg) \div 100

circuit_emissions == circuit_operations * UnitsPerKg

accommodation == total_personnel * 3 * hotel_night * UnitsPerKg

\* variant: the accommodation term is left out of the total
total_emissions_NoAccommodation(f, p, fu, c, a) ==
  Frac(f + p + fu + c, support_series_factor, 10)

total_emissions(f, p, fu, c, a) == Frac(f + p + fu + c + a, support_series_factor, 10)

calculate_race_emissions(race_data) ==
  LET distance == race_data.distance_from_previous
      method == race_data.freight_method
      f == freight_emissions(distance, method)
      p == personnel_travel(distance)
  IN [freight |-> f,
      personnel_travel |-> p,
      fuel |-> fuel_emissions,
      circuit_operations |-> circuit_emissions,
      accommodation |-> accommodation,
      total |-> total_emissions(f, p, fuel_emissions, circuit_emissions, accommodation)]

\* one row of the season table: the emissions with 'race' and 'location' added
SeasonRowOf(race) ==
  LET e == calculate_race_emissions(race)
  IN [race |-> race.race, location |-> race.location,
      freight |-> e.freight, personnel_travel |-> e.personnel_travel,
      fuel |-> e.fuel, circuit_operations |-> e.circuit_operations,
      accommodation |-> e.accommodation, total |-> e.total]

\* emissions_df[col].sum()
RECURSIVE ColSum(_, _)
ColSum(df, col) ==
  IF df = << >> THEN 0 ELSE df[1][col] + ColSum(Tail(df), col)

----------------------------------------------------------------------------
(* simulate_sustainability_scenarios *)

\* variant: the base is the sum of the category columns, multiplier not applied
base_total_NoSupportSeries(df) ==
  ColSum(df, "freight") + ColSum(df, "personnel_travel") + ColSum(df, "fuel")
    + ColSum(df, "circuit_operations") + ColSum(df, "accommodation")

base_total(df) == ColSum(df, "total")

saf_reduction(df) == Frac(ColSum(df, "freight"), 5, 10)

\* variant: the 20% is applied as the factor 2
travel_reduction_FactorTwo(df) ==
  Frac(ColSum(df, "freight") + ColSum(df, "personnel_travel"), 20, 10)

travel_reduction(df) ==
  Frac(ColSum(df, "freight") + ColSum(df, "personnel_travel"), 2, 10)

circuit_reduction(df) == Frac(ColSum(df, "circuit_operations"), 8, 10)

\* variant: the circuit reduction is left out of the combination
combined_reduction_NoCircuit(df) == saf_reduction(df) + travel_reduction(df)

combined_reduction(df) == saf_reduction(df) + travel_reduction(df) + circuit_reduction(df)

\* one entry of the scenarios dict; the sums of a DataFrame are numpy scalars
Scenario(reduction, base) ==
  [reduction |-> reduction,
   new_total |-> base - reduction,
   percentage_reduction |-> Times(Divide(reduction, base, "numpy"), 100)]

simulate_sustainability_scenarios(df) ==
  [sustainable_aviation_fuel |-> Scenario(saf_reduction(df), base_total(df)),
   calendar_optimization |-> Scenario(travel_reduction(df), base_total(df)),
   renewable_energy |-> Scenario(circuit_reduction(df), base_total(df)),
   combined_approach |-> Scenario(combined_reduction(df), base_total(df))]

ScenarioNames ==
  {"sustainable_aviation_fuel", "calendar_optimization", "renewable_energy",
   "combined_approach"}

NoScenario == [reduction |-> 0, new_total |-> 0, percentage_reduction |-> NaN]
NoScenarios == [n \in ScenarioNames |-> NoScenario]

----------------------------------------------------------------------------
(* generate_report: the category breakdown of lines 297-307 *)

Categories ==
  {"freight", "personnel_travel", "fuel", "circuit_operations", "accommodation"}

CategoryPercentages(df) ==
  [c \in Categories |-> Times(Divide(ColSum(df, c), ColSum(df, "total"), "numpy"), 100)]

NoPercentages == [c \in Categories |-> NaN]

----------------------------------------------------------------------------
(* track_progress_to_net_zero *)

\* variant: the guard lets zero years through
RequiredAnnualReduction_GuardAllowsZero(ce, years, kind) ==
  IF years >= 0 THEN Divide(ce, years, kind) ELSE Val(ce, 1, 1)

\* line 331: the guarded quotient
RequiredAnnualReduction(ce, years, kind) ==
  IF years > 0 THEN Divide(ce, years, kind) ELSE Val(ce, 1, 1)

\* line 337: (required_annual_reduction / current_emissions) * 100
ReductionRate(required, ce, kind) == Times(DivideVal(required, ce, kind), 100)

----------------------------------------------------------------------------
(* Inputs *)

\* the year datetime.now() reports, and the target years a caller passes
CurrentYears == {2026, 2030, 2031}
TargetYears == {2028, 2030}

\* current_emissions a caller passes to track_progress_to_net_zero
EmissionInputs == {0, 4, 4000}
Kinds == {"python", "numpy"}

\* emission tables a caller passes to simulate_sustainability_scenarios
ArbitraryRows ==
  { [race |-> "X", location |-> "L", freight |-> f, personnel_travel |-> p,
     fuel |-> 0, circuit_operations |-> c, accommodation |-> 0, total |-> t] :
       f \in {0, 40}, p \in {0, 20}, c \in {0, 40}, t \in {0, 200} }

InputTables == UNION { [1..n -> ArbitraryRows] : n \in 1..MaxRows }

NoValue == [k |-> "none", num |-> 0, den |-> 0, scale |-> 0]

----------------------------------------------------------------------------
(* The state machine *)

\* the tracker as __init__ leaves it
Init ==
  /\ race_calendar = BuiltInCalendar
  /\ pc = "start"
  /\ caller = "none"
  /\ results = << >>
  /\ emissions_df = << >>
  /\ total_season = 0
  /\ category_pct = NoPercentages
  /\ scenarios = NoScenarios
  /\ current_emissions = 0
  /\ emissions_kind = "numpy"
  /\ target_year = default_target_year
  /\ current_year = 0
  /\ years_remaining = 0
  /\ required_annual_reduction = NoValue
  /\ reduction_rate = NoValue
  /\ fault = "none"

trackVars == << current_emissions, emissions_kind, target_year, current_year,
                years_remaining, required_annual_reduction, reduction_rate >>

\* a caller assigns another calendar to tracker.race_calendar before the run
\* (CallSimulate and CallTrack never read the calendar: they are explored on
\* the constructed tracker only)
ReplaceCalendar ==
  /\ pc = "start"
  /\ race_calendar' \in GeneratedCalendars
  /\ pc' = "configured"
  /\ UNCHANGED << caller, results, emissions_df, total_season, category_pct,
                  scenarios, trackVars, fault >>

\* main() -> generate_report() -> calculate_season_emissions(): results = []
GenerateReportBegin ==
  /\ pc \in {"start", "configured"}
  /\ pc' = "season_loop"
  /\ caller' = "main"
  /\ results' = << >>
  /\ UNCHANGED << race_calendar, emissions_df, total_season, category_pct,
                  scenarios, trackVars, fault >>

\* variant: every iteration processes the first event again
SeasonRow_FirstEventAgain ==
  /\ pc = "season_loop"
  /\ Len(results) < Len(race_calendar)
  /\ results' = Append(results, SeasonRowOf(race_calendar[1]))
  /\ UNCHANGED << race_calendar, pc, caller, emissions_df, total_season,
                  category_pct, scenarios, trackVars, fault >>

\* one iteration of `for _, race in self.race_calendar.iterrows()`
SeasonRow ==
  /\ pc = "season_loop"
  /\ Len(results) < Len(race_calendar)
  /\ results' = Append(results, SeasonRowOf(race_calendar[Len(results) + 1]))
  /\ UNCHANGED << race_calendar, pc, caller, emissions_df, total_season,
                  category_pct, scenarios, trackVars, fault >>

\* the loop is exhausted: return pd.DataFrame(results)
SeasonReturn ==
  /\ pc = "season_loop"
  /\ Len(results) = Len(race_calendar)
  /\ emissions_df' = results
  /\ pc' = "report"
  /\ UNCHANGED << race_calendar, caller, results, total_season, category_pct,
                  scenarios, trackVars, fault >>

Raises(pcts, scen) ==
  \/ \E c \in Categories : pcts[c].k = "raise"
  \/ \E n \in ScenarioNames : scen[n].percentage_reduction.k = "raise"

\* the rest of generate_report: season total, category percentages, scenarios
GenerateReportBody ==
  /\ pc = "report"
  /\ LET pcts == CategoryPercentages(emissions_df)
         scen == simulate_sustainability_scenarios(emissions_df)
     IN /\ total_season' = ColSum(emissions_df, "total")
        /\ IF Raises(pcts, scen)
             THEN /\ fault' = "ZeroDivisionError"
                  /\ pc' = "fault"
                  /\ UNCHANGED << category_pct, scenarios >>
             ELSE /\ category_pct' = pcts
                  /\ scenarios' = scen
                  /\ pc' = "reported"
                  /\ UNCHANGED fault
  /\ UNCHANGED << race_calendar, caller, results, emissions_df, trackVars >>

\* the body of track_progress_to_net_zero
TrackProgress(ce, kind, ty, cy) ==
  LET years == ty - cy
      req == RequiredAnnualReduction(ce, years, kind)
      rate == ReductionRate(req, ce, kind)
  IN /\ current_emissions' = ce
     /\ emissions_kind' = kind
     /\ target_year' = ty
     /\ current_year' = cy
     /\ years_remaining' = years
     /\ IF req.k = "raise" \/ rate.k = "raise"
          THEN /\ fault' = "ZeroDivisionError"
               /\ pc' = "fault"
               /\ UNCHANGED << required_annual_reduction, reduction_rate >>
          ELSE /\ required_annual_reduction' = req
               /\ reduction_rate' = rate
               /\ pc' = "done"
               /\ UNCHANGED fault

\* main(): tracker.track_progress_to_net_zero(emissions_df['total'].sum())
MainTrack ==
  /\ pc = "reported"
  /\ \E cy \in CurrentYears :
       TrackProgress(ColSum(emissions_df, "total"), "numpy", default_target_year, cy)
  /\ UNCHANGED << race_calendar, caller, results, emissions_df, total_season,
                  category_pct, scenarios >>

\* a caller invokes simulate_sustainability_scenarios on a table of its own
CallSimulate ==
  /\ pc = "start"
  /\ \E df \in InputTables :
       LET scen == simulate_sustainability_scenarios(df)
       IN /\ emissions_df' = df
          /\ IF Raises(NoPercentages, scen)
               THEN /\ fault' = "ZeroDivisionError"
                    /\ pc' = "fault"
                    /\ UNCHANGED scenarios
               ELSE /\ scenarios' = scen
                    /\ pc' = "done"
                    /\ UNCHANGED fault
  /\ caller' = "simulate"
  /\ UNCHANGED << race_calendar, results, total_season, category_pct, trackVars >>

\* a caller invokes track_progress_to_net_zero with numbers of its own
CallTrack ==
  /\ pc = "start"
  /\ \E ce \in EmissionInputs, kind \in Kinds, ty \in TargetYears, cy \in CurrentYears :
       TrackProgress(ce, kind, ty, cy)
  /\ caller' = "track"
  /\ UNCHANGED << race_calendar, results, emissions_df, total_season,
                  category_pct, scenarios >>

Next ==
  \/ ReplaceCalendar
  \/ GenerateReportBegin
  \/ SeasonRow
  \/ SeasonReturn
  \/ GenerateReportBody
  \/ MainTrack
  \/ CallSimulate
  \/ CallTrack

Spec == Init /\ [][Next]_vars

----------------------------------------------------------------------------
(* Properties *)

\* positions of the program
ReportReady == caller = "main" /\ pc \in {"reported", "done"}
ScenariosReady == ReportReady \/ (caller = "simulate" /\ pc = "done")
TrackRan == current_year # 0
SeasonReturned == caller = "main" /\ pc \in {"report", "reported", "done"}

CategorySum(r) ==
  r.freight + r.personnel_travel + r.fuel + r.circuit_operations + r.accommodation

\* sum over the calendar of calculate_race_emissions(event)['total']
RECURSIVE SumOfEventTotals(_)
SumOfEventTotals(cal) ==
  IF cal = << >> THEN 0
  ELSE calculate_race_emissions(cal[1]).total + SumOfEventTotals(Tail(cal))

\* Every division of the model is exact in quarter-kilograms.
ExactArithmetic ==
  /\ \A i \in 1..Len(results) : (CategorySum(results[i]) * support_series_factor) % 10 = 0
  /\ ScenariosReady =>
       /\ (ColSum(emissions_df, "freight") * 5) % 10 = 0
       /\ ((ColSum(emissions_df, "freight") + ColSum(emissions_df, "personnel_travel")) * 2) % 10 = 0
       /\ (ColSum(emissions_df, "circuit_operations") * 8) % 10 = 0

\* C1: for every event the season loop has processed, 'total' is the sum of
\* the five category values of the same result times 1.3, and so is at least
\* the plain sum of the five.
C1_TotalIsSumTimesFactor ==
  \A i \in 1..Len(results) :
    /\ results[i].total * 10 = CategorySum(results[i]) * 13
    /\ results[i].total >= CategorySum(results[i])

C1_Witness ==
  /\ Len(results) >= 2
  /\ results[2].freight > 0
  /\ results[2].total > CategorySum(results[2])

\* C2: calculate_season_emissions returns exactly one row per calendar event,
\* in calendar order (24 rows for the built-in calendar), and the season total
\* of generate_report, of the scenarios and of the tracker call is the sum of
\* calculate_race_emissions(event)['total'] over the calendar.
C2_SeasonTotalIsSumOfEvents ==
  /\ SeasonReturned =>
       /\ Len(emissions_df) = Len(race_calendar)
       /\ race_calendar = BuiltInCalendar => Len(emissions_df) = 24
       /\ \A i \in 1..Len(emissions_df) :
            /\ emissions_df[i].race = race_calendar[i].race
            /\ emissions_df[i].total = calculate_race_emissions(race_calendar[i]).total
  /\ ReportReady =>
       /\ total_season = SumOfEventTotals(race_calendar)
       /\ \A n \in ScenarioNames :
            scenarios[n].new_total + scenarios[n].reduction
              = SumOfEventTotals(race_calendar)
  /\ (caller = "main" /\ pc = "done") =>
       current_emissions = SumOfEventTotals(race_calendar)

C2_Witness ==
  /\ caller = "main"
  /\ pc = "done"
  /\ race_calendar = BuiltInCalendar
  /\ Len(emissions_df) = 24
  /\ total_season > 0

\* C3: the reduction of combined_approach is the sum of the reductions of the
\* three single-measure scenarios, for any emissions table.
C3_CombinedIsSumOfThree ==
  ScenariosReady =>
    scenarios.combined_approach.reduction
      = scenarios.sustainable_aviation_fuel.reduction
        + scenarios.calendar_optimization.reduction
        + scenarios.renewable_energy.reduction

C3_Witness ==
  /\ ScenariosReady
  /\ scenarios.sustainable_aviation_fuel.reduction > 0
  /\ scenarios.calendar_optimization.reduction
       > scenarios.sustainable_aviation_fuel.reduction
  /\ scenarios.renewable_energy.reduction > 0

\* C4: for each of the four scenarios, percentage_reduction is
\* reduction / base * 100 and new_total is base - reduction, where base is the
\* sum of the 'total' column: the per-event totals, multiplier included.
C4_PercentageAndNewTotal ==
  ScenariosReady =>
    LET base == ColSum(emissions_df, "total")
    IN /\ caller = "main" => base = SumOfEventTotals(race_calendar)
       /\ \A n \in ScenarioNames :
            /\ scenarios[n].new_total = base - scenarios[n].reduction
            /\ base # 0 =>
                 scenarios[n].percentage_reduction = Val(scenarios[n].reduction, base, 100)

C4_Witness ==
  /\ ReportReady
  /\ \A n \in ScenarioNames :
       /\ scenarios[n].reduction > 0
       /\ scenarios[n].percentage_reduction.k = "num"
       /\ scenarios[n].percentage_reduction.den > CategorySum(emissions_df[1])

\* an operation that divides by the season total has run on a zero total
SimulateOnZero ==
  caller = "simulate" /\ pc \in {"done", "fault"} /\ ColSum(emissions_df, "total") = 0
TrackOnZero == TrackRan /\ current_emissions = 0

\* C5 (as stated): with a zero season total, the operation dividing by it
\* ends in a runtime fault that propagates instead of returning a result.
C5_ZeroTotalFaults ==
  (SimulateOnZero \/ TrackOnZero) => (pc = "fault" /\ fault = "ZeroDivisionError")

\* C5 (amended): the division by a zero season total is unguarded.  When the
\* total is a numpy scalar (every DataFrame column sum) the division yields
\* nan or inf and the operation returns its result; only the tracker called
\* with a plain Python zero ends in a propagating ZeroDivisionError.
C5_ZeroTotalNanOrFault ==
  /\ SimulateOnZero =>
       /\ pc = "done"
       /\ fault = "none"
       /\ \A n \in ScenarioNames :
            /\ scenarios[n].percentage_reduction.k \in {"nan", "inf"}
            /\ scenarios[n].reduction = 0 <=> scenarios[n].percentage_reduction.k = "nan"
  /\ TrackOnZero =>
       IF emissions_kind = "python"
         THEN /\ pc = "fault"
              /\ fault = "ZeroDivisionError"
              /\ required_annual_reduction = NoValue
         ELSE /\ pc = "done"
              /\ fault = "none"
              /\ required_annual_reduction.k = "num"
              /\ required_annual_reduction.num = 0
              /\ reduction_rate.k = "nan"

C5_Witness ==
  /\ SimulateOnZero
  /\ pc = "done"
  /\ scenarios.sustainable_aviation_fuel.percentage_reduction.k = "inf"
  /\ scenarios.renewable_energy.percentage_reduction.k = "nan"

\* C6: for the built-in calendar, the reduction of calendar_optimization is at
\* least the reduction of sustainable_aviation_fuel and of renewable_energy
\* ("Calendar optimization offers the biggest single impact").
C6_CalendarOptimizationBiggest ==
  (ReportReady /\ race_calendar = BuiltInCalendar) =>
    /\ scenarios.calendar_optimization.reduction
         >= scenarios.sustainable_aviation_fuel.reduction
    /\ scenarios.calendar_optimization.reduction
         >= scenarios.renewable_energy.reduction

\* freight emissions of the rows whose event is shipped by `method`
RECURSIVE FreightBy(_, _, _)
FreightBy(cal, df, method) ==
  IF cal = << >> \/ df = << >> THEN 0
  ELSE (IF cal[1].freight_method = method THEN df[1].freight ELSE 0)
         + FreightBy(Tail(cal), Tail(df), method)

\* C7: the reduction of sustainable_aviation_fuel is half of the freight
\* emissions of the air-freighted events; sea and road freight add nothing.
C7_SafIsHalfOfAirFreight ==
  ReportReady =>
    scenarios.sustainable_aviation_fuel.reduction * 2
      = FreightBy(race_calendar, emissions_df, "air")

\* C8: the freight value of every processed event is
\* (teams * freight weight per team) * distance * factor / 1000 with factor 2.1
\* for 'air', 0.015 for 'sea' and 0.1 for every other freight_method.
C8_FreightThreeWay ==
  \A i \in 1..Len(results) :
    LET e == race_calendar[i]
        milli == IF e.freight_method = "air" THEN 2100
                 ELSE IF e.freight_method = "sea" THEN 15
                 ELSE 100
        perKm == ((((10 * 15000) \div 1000) * milli) * UnitsPerKg) \div 1000
    IN results[i].freight = perKm * e.distance_from_previous

C8_Witness ==
  /\ Len(results) = 2
  /\ race_calendar[1].freight_method = "rail"
  /\ race_calendar[2].freight_method = "sea"
  /\ results[1].freight > results[2].freight
  /\ results[2].freight > 0

\* least integer >= num / den, for den > 0
CeilDiv(num, den) == -((-num) \div den)

\* C9: when track_progress_to_net_zero returns, it returns current_emissions /
\* (target_year - current year) if the target year is after the current year
\* and current_emissions itself otherwise; no fault comes from the number of
\* years remaining (a call with non-zero current_emissions always returns);
\* for positive current_emissions the result is > 0 and <= current_emissions.
C9_GuardedAnnualReduction ==
  TrackRan =>
    /\ current_emissions # 0 => (pc = "done" /\ fault = "none")
    /\ pc = "done" =>
         required_annual_reduction =
           IF target_year > current_year
             THEN Val(current_emissions, target_year - current_year, 1)
             ELSE Val(current_emissions, 1, 1)
    /\ current_emissions > 0 =>
         /\ required_annual_reduction.k = "num"
         /\ required_annual_reduction.num > 0
         /\ required_annual_reduction.den > 0
         /\ required_annual_reduction.scale = 1
         /\ CeilDiv(required_annual_reduction.num, required_annual_reduction.den)
              <= current_emissions

C9_Witness ==
  /\ TrackRan
  /\ pc = "done"
  /\ emissions_kind = "python"
  /\ current_emissions > 0
  /\ target_year <= current_year
  /\ required_annual_reduction = Val(current_emissions, 1, 1)

\* C10: for a calendar with at least one event and non-negative distances the
\* base season total is > 0 and every scenario has 0 <= reduction < base, so
\* new_total > 0 and percentage_reduction is in [0, 100).
C10_ReductionBelowBase ==
  ReportReady =>
    /\ total_season > 0
    /\ \A n \in ScenarioNames :
         /\ 0 <= scenarios[n].reduction
         /\ scenarios[n].reduction < total_season
         /\ scenarios[n].new_total > 0
         /\ scenarios[n].percentage_reduction.k = "num"
         /\ scenarios[n].percentage_reduction.scale = 100
         /\ 0 <= scenarios[n].percentage_reduction.num
         /\ scenarios[n].percentage_reduction.num < scenarios[n].percentage_reduction.den

C10_Witness ==
  /\ ReportReady
  /\ Len(race_calendar) = 1
  /\ race_calendar[1].distance_from_previous = 0
  /\ scenarios.combined_approach.reduction > 0
  /\ scenarios.combined_approach.reduction = scenarios.renewable_energy.reduction

====
